---- MODULE Spec2Model ----
(***************************************************************************)
(* Model of the mcpx-anthropic driver (src/src/index.ts, lines 1-300):     *)
(* the Driver's createMessage / nextTurn / next / call turn machine and    *)
(* the ToolSchemaError classifier.                                         *)
(*                                                                         *)
(* JavaScript values are modelled as follows: an object is a record whose  *)
(* domain is the set of its own properties (a missing property is a        *)
(* missing field), an array is a sequence, a string that the code only     *)
(* copies is a TLA+ string, and a string that the code inspects (the API   *)
(* error message) is a sequence of one-character strings.  The message of  *)
(* an Error object is a sequence of text pieces, so that a concatenation   *)
(* is a concatenation.                                                     *)
(***************************************************************************)
EXTENDS Integers, Sequences, FiniteSets, TLC

\* ------------------------------------------------------------------ bounds
\* longest content array of one model response
MaxBlocks == 2
\* completion requests answered within one createMessage call
MaxTurns == 2
\* longest tool list of a Driver
MaxTools == 3
\* largest tool position named by an API error message
MaxToolIndex == 4

\* ------------------------------------------------------- JavaScript values
\* the value of a destructured property that the object does not have
Undefined == "undefined"

HasField(obj, f) == f \in DOMAIN obj

\* obj.f, or undefined when obj has no property f
Get(obj, f) == IF HasField(obj, f) THEN obj[f] ELSE Undefined

Digits == <<"0", "1", "2", "3", "4", "5", "6", "7", "8", "9">>

IsDigit(c) == \E d \in DOMAIN Digits : Digits[d] = c

DigitValue(c) == (CHOOSE d \in DOMAIN Digits : Digits[d] = c) - 1

\* String.prototype.startsWith
StartsWith(s, prefix) ==
    /\ Len(s) >= Len(prefix)
    /\ SubSeq(s, 1, Len(prefix)) = prefix

\* String.prototype.includes
Includes(s, sub) ==
    \E i \in 1..(Len(s) - Len(sub) + 1) : SubSeq(s, i, i + Len(sub) - 1) = sub

\* String.prototype.split with a one-character separator
RECURSIVE Split(_, _)
Split(s, sep) ==
    IF \E i \in DOMAIN s : s[i] = sep
    THEN LET i == CHOOSE j \in DOMAIN s :
                     s[j] = sep /\ \A k \in 1..(j - 1) : s[k] # sep
         IN <<SubSeq(s, 1, i - 1)>> \o Split(SubSeq(s, i + 1, Len(s)), sep)
    ELSE <<s>>

\* the value of the longest run of decimal digits that starts s
RECURSIVE DigitRun(_, _)
DigitRun(s, acc) ==
    IF s # <<>> /\ IsDigit(Head(s))
    THEN DigitRun(Tail(s), 10 * acc + DigitValue(Head(s)))
    ELSE acc

RECURSIVE SkipSpaces(_)
SkipSpaces(s) == IF s # <<>> /\ Head(s) = " " THEN SkipSpaces(Tail(s)) ELSE s

\* parseInt(s): leading white space is skipped, an optional sign is read, then
\* the longest run of digits; NaN when no digit follows.
ParseInt(s) ==
    LET t == SkipSpaces(s)
        signed == t # <<>> /\ Head(t) \in {"-", "+"}
        u == IF signed THEN Tail(t) ELSE t
    IN IF u = <<>> \/ ~IsDigit(Head(u))
       THEN [nan |-> TRUE]
       ELSE [nan |-> FALSE,
             val |-> IF signed /\ Head(t) = "-" THEN 0 - DigitRun(u, 0)
                     ELSE DigitRun(u, 0)]

\* ------------------------------------------------------------------ tools
ToolNames == <<"tool1", "tool2", "tool3", "tool4", "tool5", "tool6">>

Tool(k) == [name |-> ToolNames[k], description |-> "d", input_schema |-> "s"]

\* the tool lists a Driver is constructed with (createDriver maps the catalog)
ToolLists == {[k \in 1..n |-> Tool(k)] : n \in 0..MaxTools}

\* ------------------------------------------------- completion-request errors
ToolsDot == <<"t", "o", "o", "l", "s", ".">>

InputSchemaText == <<"i", "n", "p", "u", "t", "_", "s", "c", "h", "e", "m", "a">>

\* decimal text of a tool position
DecimalText(i) ==
    IF i < 10 THEN <<Digits[i + 1]>>
    ELSE <<Digits[(i \div 10) + 1], Digits[(i % 10) + 1]>>

\* how the message of an API error begins
Prefixes ==
    [tools |-> ToolsDot,
     none |-> <<>>,
     tool |-> <<"t", "o", "o", "l", ".">>,
     spaced |-> <<" ">> \o ToolsDot]

\* what follows "tools." where the position is expected
IndexTexts ==
    [i \in 0..MaxToolIndex |-> DecimalText(i)]

BadIndexTexts ==
    [empty |-> <<>>, word |-> <<"x">>, negative |-> <<"-", "1">>]

\* how the message ends
Suffixes ==
    [schema |-> <<".">> \o InputSchemaText \o <<" ", "b", "a", "d">>,
     custom |-> <<".", "c", "u", "s", "t", "o", "m", ".">> \o InputSchemaText,
     name |-> <<".", "n", "a", "m", "e", " ", "b", "a", "d">>]

\* the suffixes that contain the marker input_schema
MarkedSuffixes == {"schema", "custom"}

ErrorTypes == {"invalid_request_error", "other_error"}

\* how an error was built: its shape, and for a nested API error the type and
\* the pieces of its message
ErrorForms ==
    {[shape |-> "plain"], [shape |-> "no_nested"]}
    \cup {[shape |-> "no_message", type |-> t] : t \in ErrorTypes}
    \cup {[shape |-> "indexed", type |-> t, prefix |-> p, index |-> i, suffix |-> s] :
            t \in ErrorTypes, p \in DOMAIN Prefixes,
            i \in 0..MaxToolIndex, s \in DOMAIN Suffixes}
    \cup {[shape |-> "unindexed", type |-> t, prefix |-> p, text |-> b, suffix |-> s] :
            t \in ErrorTypes, p \in DOMAIN Prefixes,
            b \in DOMAIN BadIndexTexts, s \in DOMAIN Suffixes}

MessageOf(form) ==
    Prefixes[form.prefix]
    \o (IF form.shape = "indexed" THEN IndexTexts[form.index]
        ELSE BadIndexTexts[form.text])
    \o Suffixes[form.suffix]

\* the error object of a form; oid is the identity of the object
ErrorOf(form, oid) ==
    CASE form.shape = "plain" ->
           [oid |-> oid, message |-> <<"Not a schema error">>]
      [] form.shape = "no_nested" ->
           [oid |-> oid, message |-> <<"Bad request">>, error |-> [status |-> "400"]]
      [] form.shape = "no_message" ->
           [oid |-> oid, message |-> <<"Bad request">>,
            error |-> [error |-> [type |-> form.type]]]
      [] OTHER ->
           [oid |-> oid, message |-> <<"Original error message">>,
            error |-> [error |-> [type |-> form.type, message |-> MessageOf(form)]]]

\* ------------------------------------------------------- ToolSchemaError
\* new ToolSchemaError(error, toolIndex, toolName)
NewToolSchemaError(error, toolIndex, toolName) ==
    [class |-> "ToolSchemaError",
     message |-> <<"Invalid schema for tool #", ToString(toolIndex), ": '", toolName,
                   "'\nCaused by: ">> \o error.message,
     originalError |-> error,
     toolIndex |-> toolIndex,
     toolName |-> toolName]

\* what evaluating tools[index].name throws when tools[index] is undefined
TypeErrorValue ==
    [class |-> "TypeError", message |-> <<"Cannot read properties of undefined">>]

\* a bug: the position is read from the wrong part of the message
IndexPart_First(parts) == parts[1]

\* parts[1]
IndexPart(parts) == parts[2]

\* a bug: "tools." is looked for anywhere in the message
Positional_Anywhere(message) == Includes(message, ToolsDot)

\* message.startsWith("tools.")
Positional(message) == StartsWith(message, ToolsDot)

\* error?.type === 'invalid_request_error' && message?.includes('input_schema'),
\* for error = err?.error?.error
SchemaMarked(err) ==
    /\ HasField(err, "error")
    /\ HasField(err.error, "error")
    /\ HasField(err.error.error, "type")
    /\ err.error.error.type = "invalid_request_error"
    /\ HasField(err.error.error, "message")
    /\ Includes(err.error.error.message, InputSchemaText)

\* ToolSchemaError.parse(err, tools): [threw, value]
Parse(err, tools) ==
    IF SchemaMarked(err) /\ Positional(err.error.error.message)
    THEN LET parts == Split(err.error.error.message, ".")
             index == ParseInt(IndexPart(parts))
         IN IF ~index.nan /\ index.val >= 0 /\ index.val < Len(tools)
            THEN [threw |-> FALSE,
                  value |-> NewToolSchemaError(err, index.val, tools[index.val + 1].name)]
            ELSE \* tools[index] is undefined
                 [threw |-> TRUE, value |-> TypeErrorValue]
    ELSE [threw |-> FALSE, value |-> err]

\* ------------------------------------------------------ conversation data
StopReasons == {"end_turn", "max_tokens", "stop_sequence", "tool_use", "null"}

ToolUseIds == <<"toolu_1", "toolu_2", "toolu_3", "toolu_4", "toolu_5", "toolu_6">>

TextBlock == [type |-> "text", text |-> "hello"]

\* the tool_use block at position p (from 1) of a response
ToolUseBlock(p) ==
    [type |-> "tool_use", id |-> ToolUseIds[p], name |-> "add", input |-> "a:2,b:2"]

BlockKinds == {"text", "tool_use"}

\* the content arrays of the model's responses
Contents ==
    {[p \in 1..n |-> IF kinds[p] = "tool_use" THEN ToolUseBlock(p) ELSE TextBlock] :
        n \in 0..MaxBlocks, kinds \in [1..MaxBlocks -> BlockKinds]}

\* the responses of the completion service
Responses ==
    {[role |-> "assistant", content |-> c, stop_reason |-> s] :
        c \in Contents, s \in StopReasons}

UserMessage == [role |-> "user", content |-> <<[type |-> "text", text |-> "2+2?"]>>]

\* the message lists a caller passes to createMessage
InitialMessages ==
    {<<UserMessage>>,
     <<UserMessage, [role |-> "assistant", content |-> <<TextBlock>>], UserMessage>>}

\* the caller's request options: everything of the body but the messages
Configs ==
    {[max_tokens |-> 1024],
     [max_tokens |-> 1024, tools |-> <<[name |-> "mine", input_schema |-> "s"]>>]}

\* what the tool session answers to handleCallTool: it resolves with a list
\* payload or a single payload, or it rejects with an Error
ToolOutcomes ==
    {[resolved |-> TRUE, isArray |-> TRUE,
      result |-> [content |-> <<[type |-> "text", text |-> "4", annotations |-> "n"],
                                [type |-> "resource", resource |-> "r"]>>]],
     [resolved |-> TRUE, isArray |-> FALSE,
      result |-> [content |-> [type |-> "text", text |-> "4"]]],
     [resolved |-> FALSE,
      error |-> [name |-> "Error", message |-> "boom", stack |-> "at tool"]]}

\* { ...a, ...b }
Spread(a, b) ==
    [f \in (DOMAIN a) \cup (DOMAIN b) |-> IF f \in DOMAIN b THEN b[f] ELSE a[f]]

\* ...(this.#tools.length ? { tools: this.#tools } : {})
ToolsPart(driverTools) == IF Len(driverTools) > 0 THEN [tools |-> driverTools] ELSE <<>>

IsToolUse(block) == block.type = "tool_use"

\* the tool_use blocks of a content array, in order
ToolUsesOf(content) == SelectSeq(content, IsToolUse)

\* ------------------------------------------------------------ Driver.call
\* a bug: the items of a list payload are copied whole
FlattenItem_Whole(xs) == xs

\* xs => ({ [xs.type]: xs[xs.type], type: xs.type })
FlattenItem(xs) ==
    [f \in {xs.type, "type"} |-> IF f = "type" THEN xs.type ELSE Get(xs, xs.type)]

\* err.toString()
ErrorToString(err) == <<err.name, ": ", err.message>>

\* a bug: a single payload is flattened into a one-element list
call_Wrapped(submessage, outcome) ==
    IF outcome.resolved
    THEN [threw |-> FALSE,
          value |-> [tool_use_id |-> Get(submessage, "id"),
                     type |-> "tool_result",
                     content |-> IF outcome.isArray
                                 THEN [i \in DOMAIN outcome.result.content |->
                                         FlattenItem(outcome.result.content[i])]
                                 ELSE <<FlattenItem(outcome.result.content)>>]]
    ELSE [threw |-> FALSE,
          value |-> [tool_use_id |-> Get(submessage, "id"),
                     type |-> "tool_result",
                     content |-> ErrorToString(outcome.error),
                     is_error |-> TRUE]]

\* a bug: the rejection of handleCallTool is not caught
call_Uncaught(submessage, outcome) ==
    IF outcome.resolved
    THEN [threw |-> FALSE,
          value |-> [tool_use_id |-> Get(submessage, "id"),
                     type |-> "tool_result",
                     content |-> IF outcome.isArray
                                 THEN [i \in DOMAIN outcome.result.content |->
                                         FlattenItem(outcome.result.content[i])]
                                 ELSE outcome.result.content]]
    ELSE [threw |-> TRUE, value |-> outcome.error]

\* call(submessage) when handleCallTool settles with outcome: [threw, value];
\* the rejection is caught, so call returns a block either way
call(submessage, outcome) ==
    LET id == Get(submessage, "id")
    IN IF outcome.resolved
       THEN [threw |-> FALSE,
             value |-> [tool_use_id |-> id,
                        type |-> "tool_result",
                        content |-> IF outcome.isArray
                                    THEN [i \in DOMAIN outcome.result.content |->
                                            FlattenItem(outcome.result.content[i])]
                                    ELSE outcome.result.content]]
       ELSE [threw |-> FALSE,
             value |-> [tool_use_id |-> id,
                        type |-> "tool_result",
                        content |-> ErrorToString(outcome.error),
                        is_error |-> TRUE]]

\* what call(submessage) reports to the logger
callEvents(submessage, outcome) ==
    IF outcome.resolved THEN <<>>
    ELSE <<[event |-> "tool use failed",
            tool_use_id |-> Get(submessage, "id"),
            name |-> Get(submessage, "name"),
            error |-> outcome.error.message]>>

\* the request call(submessage) sends to session.handleCallTool
callRequest(submessage) ==
    [method |-> "tools/call",
     params |-> [name |-> Get(submessage, "name"),
                 arguments |-> Get(submessage, "input")]]

\* ------------------------------------------------------------ Driver.next
\* Positions: a JavaScript index i of an array is position i + 1 of the
\* sequence; stage.index, toolCallIndex and submessageIdx keep their
\* JavaScript values.

\* the request body of this.#anthropic.messages.create in next
createRequest(driverTools, config, msgs) ==
    Spread(Spread(ToolsPart(driverTools), config), [messages |-> msgs])

\* the index of the first tool_use block of a content array
FirstToolUse(content) ==
    (CHOOSE p \in DOMAIN content :
        IsToolUse(content[p]) /\ \A q \in 1..(p - 1) : ~IsToolUse(content[q])) - 1

\* a bug: the stop_reason tool_use of a response without tool_use block is ignored
StaysPending_EndTurnOnly(stage, response) ==
    /\ response.stop_reason = "end_turn"
    /\ HasField(stage, "toolCallIndex")
    /\ stage.toolCallIndex > 0

\* a bug: every end_turn response asks for another completion
StaysPending_AnyEndTurn(stage, response) ==
    \/ response.stop_reason = "tool_use"
    \/ response.stop_reason = "end_turn"

\* case 'pending', for a response without tool_use block: whether next
\* returns status pending (and not ready)
StaysPending(stage, response) ==
    \/ response.stop_reason = "tool_use"
    \/ /\ response.stop_reason = "end_turn"
       /\ HasField(stage, "toolCallIndex")
       /\ stage.toolCallIndex > 0

\* a bug: shift() for pop(): the oldest message is removed
Popped_Front(msgs) == Tail(msgs)

\* a bug: the placeholder is left in the list
Popped_Kept(msgs) == msgs

\* messages.pop()
Popped(msgs) == SubSeq(msgs, 1, Len(msgs) - 1)

\* case 'pending', from the resolution of messages.create with response:
\* [threw, stage, messages, events]
NextPending(stage, msgs, response) ==
    LET pushed == Append(msgs, [role |-> response.role, content |-> response.content])
        messageIdx == IF stage.index < Len(pushed) THEN Len(pushed) ELSE stage.index
        exchanged == [k \in 1..(messageIdx - stage.index) |->
                        [event |-> "message", exchange |-> pushed[stage.index + k]]]
        withNew == Append(pushed, [role |-> "user", content |-> <<>>])
        popped == Popped(withNew)
    IN IF \E p \in DOMAIN response.content : IsToolUse(response.content[p])
       THEN [threw |-> FALSE,
             stage |-> [response |-> response, index |-> messageIdx,
                        status |-> "input_wait", toolCallIndex |-> 0,
                        submessageIdx |-> FirstToolUse(response.content)],
             messages |-> withNew,
             events |-> exchanged]
       ELSE IF StaysPending(stage, response)
       THEN [threw |-> FALSE,
             stage |-> [response |-> response, index |-> messageIdx, status |-> "pending"],
             messages |-> withNew,
             events |-> exchanged]
       ELSE [threw |-> FALSE,
             stage |-> [response |-> response, index |-> messageIdx, status |-> "ready"],
             messages |-> popped,
             events |-> Append(exchanged,
                               [event |-> "final message",
                                lastMessage |-> popped[Len(popped)],
                                stopReason |-> response.stop_reason])]

\* a bug: the block index is not used, the first block is handed to call
InputSubmessage_First(stage, msgs) == msgs[stage.index].content[1]

\* case 'input_wait': the block that is handed to call
InputSubmessage(stage, msgs) == msgs[stage.index].content[stage.submessageIdx + 1]

\* a bug: the blocks after the first tool call are forgotten
AllHandled_AfterOne(nextSubmessage, inputMessage) == TRUE

\* case 'input_wait': whether the block just handled was the last of the response
AllHandled(nextSubmessage, inputMessage) == nextSubmessage >= Len(inputMessage.content)

\* a bug: after the last tool call a response that stopped with end_turn is final
AfterTools_Ready(stage, nextTool) ==
    [response |-> stage.response, index |-> stage.index,
     status |-> IF stage.response.stop_reason = "end_turn" THEN "ready" ELSE "pending"]

\* a bug: the count of tool calls is carried into the pending stage
AfterTools_Counted(stage, nextTool) ==
    [response |-> stage.response, index |-> stage.index, status |-> "pending",
     toolCallIndex |-> nextTool]

\* case 'input_wait': the stage returned once the last block is handled
AfterTools(stage, nextTool) ==
    [response |-> stage.response, index |-> stage.index, status |-> "pending"]

\* case 'input_wait', from the settling of handleCallTool with outcome:
\* [threw, stage, messages, events], and the value thrown when call threw
NextInputWait(stage, msgs, outcome) ==
    LET toolUseCount == stage.toolCallIndex
        submessageIdx == stage.submessageIdx
        inputMessage == msgs[stage.index]
        submessage == InputSubmessage(stage, msgs)
        called == call(submessage, outcome)
        pushed == [msgs EXCEPT ![stage.index + 1].content = Append(@, called.value)]
        nextTool == toolUseCount + 1
        nextSubmessage == submessageIdx + 1
    IN IF called.threw
       THEN [threw |-> TRUE, value |-> called.value, stage |-> stage,
             messages |-> msgs, events |-> callEvents(submessage, outcome)]
       ELSE IF AllHandled(nextSubmessage, inputMessage)
       THEN [threw |-> FALSE,
             stage |-> AfterTools(stage, nextTool),
             messages |-> pushed,
             events |-> callEvents(submessage, outcome)]
       ELSE [threw |-> FALSE,
             stage |-> [response |-> stage.response, index |-> stage.index,
                        status |-> "input_wait", toolCallIndex |-> nextTool,
                        submessageIdx |-> nextSubmessage],
             messages |-> pushed,
             events |-> callEvents(submessage, outcome)]

\* the statuses, other than pending and input_wait, that a stage handed to
\* next may carry: the ready of a finished turn, and one that is no status
IllegalStatuses == {"ready", "closed"}

\* a bug: an unknown status is taken for the end of a pending step
NextDefault_Returns(stage, msgs) ==
    [threw |-> FALSE, value |-> [name |-> "none", message |-> <<>>],
     stage |-> stage, messages |-> Popped(msgs), events |-> <<>>]

\* default: throw new Error("Illegal status: " + status):
\* [threw, value, stage, messages, events]
NextDefault(stage, msgs) ==
    [threw |-> TRUE,
     value |-> [name |-> "Error", message |-> <<"Illegal status: ", stage.status>>],
     stage |-> stage, messages |-> msgs, events |-> <<>>]

\* -------------------------------------------------------- Driver.nextTurn
\* a bug: the stage nextTurn starts from carries its position as a tool count
FreshStage_Counted(messageIdx) ==
    [index |-> messageIdx, status |-> "pending", response |-> <<>>,
     toolCallIndex |-> messageIdx]

\* the stage a nextTurn call starts from
FreshStage(messageIdx) == [index |-> messageIdx, status |-> "pending", response |-> <<>>]

\* a bug: done is reported whenever the machine no longer waits for a tool
TurnOf_NotWaiting(stage) ==
    [index |-> stage.index, response |-> stage.response,
     done |-> stage.status # "input_wait"]

\* a bug: the boundary handed back is one position short
TurnOf_Short(stage) ==
    [index |-> stage.index - 1, response |-> stage.response,
     done |-> stage.status = "ready"]

\* the McpxAnthropicTurn that nextTurn returns for the stage it stops at
TurnOf(stage) ==
    [index |-> stage.index, response |-> stage.response, done |-> stage.status = "ready"]

\* ---------------------------------------------------- Driver.createMessage
\* the config that createMessage hands, through nextTurn, to next: the body
\* without its messages, with the Driver's tools spread over it
TurnConfig(driverTools, rest) == Spread(rest, ToolsPart(driverTools))

\* the errors the completion service raises for a request: an error that is
\* no API error, an API error of another type, and a schema error for a
\* position of the tool list that was sent
CreateErrorForms(request) ==
    {[shape |-> "plain"]}
    \cup {[shape |-> "indexed", type |-> t, prefix |-> "tools", index |-> i,
           suffix |-> "schema"] :
            t \in ErrorTypes,
            i \in {j \in 0..MaxToolIndex :
                     HasField(request, "tools") /\ j < Len(request.tools)}}

\* ------------------------------------------------------------------ state
VARIABLES
    parseIn,    \* the arguments of a ToolSchemaError.parse call: [err, tools, form]
    parseOut,   \* <<>> before the call, <<result>> after it
    tools,      \* Driver.#tools
    config,     \* the caller's body without its messages
    pc,         \* where createMessage stands: idle, await_create, await_call,
                \* returned, thrown
    messages,   \* the caller's message array
    stage,      \* the stage of the running nextTurn call
    inflight,   \* the external call that is awaited
    settled,    \* <<>>, or <<how the awaited call settled>>
    outcome,    \* what createMessage returned or threw
    logged,     \* the events given to the logger
    requests,   \* history: the completion requests issued
    received,   \* history: the responses the completion service returned
    calls,      \* history: the tool invocations issued
    answers,    \* history: how each tool invocation settled
    steps,      \* history: the status each call of next returned
    turns,      \* history: what each call of nextTurn returned
    spc,        \* a caller that steps with next: idle, stepping, done, thrown
    smessages,  \* its message array
    sstage,     \* the stage it threads from call to call
    sused,      \* how many of the responses and tool answers it has been given
    sfatal,     \* <<>>, or <<what its call of next on a finished stage came to>>
    frames      \* two createMessage calls that run interleaved on the Driver:
                \* the local variables of each

parseVars == <<parseIn, parseOut>>

driverVars ==
    <<tools, config, pc, messages, stage, inflight, settled, outcome, logged>>

historyVars == <<requests, received, calls, answers, steps, turns>>

stepVars == <<spc, smessages, sstage, sused, sfatal>>

callVars == <<frames>>

vars == <<parseVars, driverVars, historyVars, stepVars, callVars>>

NoCall == [kind |-> "none"]

NoOutcome == [kind |-> "none"]

\* no parse call is modelled
ParseIdle ==
    /\ parseIn = [err |-> ErrorOf([shape |-> "plain"], 1), tools |-> <<>>,
                  form |-> [shape |-> "plain"]]
    /\ parseOut = <<>>

\* a Driver that no conversation has used yet
DriverIdle ==
    /\ config = [max_tokens |-> 1024]
    /\ pc = "idle"
    /\ messages = <<>>
    /\ stage = FreshStage(1)
    /\ inflight = NoCall
    /\ settled = <<>>
    /\ outcome = NoOutcome
    /\ logged = <<>>
    /\ requests = <<>>
    /\ received = <<>>
    /\ calls = <<>>
    /\ answers = <<>>
    /\ steps = <<>>
    /\ turns = <<>>

\* no caller steps with next
StepIdle ==
    /\ spc = "idle"
    /\ smessages = <<>>
    /\ sstage = FreshStage(1)
    /\ sused = [responses |-> 0, answers |-> 0]
    /\ sfatal = <<>>

\* the local variables of a createMessage call that has not begun
IdleFrame ==
    [pc |-> "idle", initial |-> <<>>, messages |-> <<>>, stage |-> FreshStage(1),
     settled |-> <<>>, outcome |-> <<>>, received |-> <<>>, answers |-> <<>>,
     overlap |-> FALSE]

\* no interleaved calls are modelled
FramesIdle == frames = [c \in {1, 2} |-> IdleFrame]

\* ----------------------------------------------------------- the Driver
Init ==
    /\ ParseIdle
    /\ FramesIdle
    /\ StepIdle
    /\ tools \in {ts \in ToolLists : Len(ts) \in {0, MaxTools}}
    /\ DriverIdle

\* createMessage(body, options) up to its first await
CreateMessage(initial, rest) ==
    /\ pc = "idle"
    /\ config' = rest
    /\ messages' = initial
    /\ stage' = FreshStage(1)
    /\ pc' = "await_create"
    /\ inflight' = [kind |-> "create",
                    request |-> createRequest(tools, TurnConfig(tools, rest), initial)]
    /\ requests' = Append(requests, inflight'.request)
    /\ UNCHANGED <<parseVars, callVars, stepVars, tools, settled, outcome, logged, received, calls,
                   answers, steps, turns>>

\* the completion service answers the awaited request
ModelResolves(response) ==
    /\ pc = "await_create"
    /\ settled = <<>>
    /\ Len(received) < MaxTurns
    /\ settled' = <<[ok |-> TRUE, value |-> response]>>
    /\ received' = Append(received, response)
    /\ UNCHANGED <<parseVars, callVars, stepVars, tools, config, pc, messages, stage, inflight, outcome,
                   logged, requests, calls, answers, steps, turns>>

\* the completion service fails the awaited request
ModelRejects(form) ==
    /\ pc = "await_create"
    /\ settled = <<>>
    /\ Len(received) < MaxTurns
    /\ form \in CreateErrorForms(inflight.request)
    /\ settled' = <<[ok |-> FALSE, value |-> ErrorOf(form, Len(requests)), form |-> form]>>
    /\ UNCHANGED <<parseVars, callVars, stepVars, tools, config, pc, messages, stage, inflight, outcome,
                   logged, requests, received, calls, answers, steps, turns>>

\* the tool session settles the awaited handleCallTool
ToolSettles(toolOutcome) ==
    /\ pc = "await_call"
    /\ settled = <<>>
    /\ settled' = <<toolOutcome>>
    /\ answers' = Append(answers, toolOutcome)
    /\ UNCHANGED <<parseVars, callVars, stepVars, tools, config, pc, messages, stage, inflight, outcome,
                   logged, requests, received, calls, steps, turns>>

\* From what a call of next came to (the stage r.stage it returned, or the
\* value it threw): the rest of nextTurn, and of createMessage up to its next
\* await, its return or its throw.
Continue(r) ==
    /\ messages' = r.messages
    /\ logged' = logged \o r.events
    /\ settled' = <<>>
    /\ CASE r.threw ->
              \* nothing catches it: nextTurn and createMessage reject with it
              /\ stage' = r.stage
              /\ pc' = "thrown"
              /\ inflight' = NoCall
              /\ outcome' = [kind |-> "threw", value |-> r.value]
              /\ UNCHANGED <<requests, calls, steps, turns>>
         [] ~r.threw /\ r.stage.status = "input_wait" ->
              \* nextTurn calls next again, which awaits call(submessage)
              /\ steps' = Append(steps, [turn |-> Len(turns) + 1, status |-> r.stage.status])
              /\ stage' = r.stage
              /\ pc' = "await_call"
              /\ inflight' = [kind |-> "call",
                              request |-> callRequest(InputSubmessage(r.stage, r.messages))]
              /\ calls' = Append(calls, [turn |-> Len(turns) + 1,
                                         submessageIdx |-> r.stage.submessageIdx,
                                         submessage |-> InputSubmessage(r.stage, r.messages),
                                         request |-> inflight'.request])
              /\ UNCHANGED <<outcome, requests, turns>>
         [] ~r.threw /\ r.stage.status # "input_wait" /\ ~TurnOf(r.stage).done ->
              \* nextTurn returns done = false; createMessage calls nextTurn again
              /\ steps' = Append(steps, [turn |-> Len(turns) + 1, status |-> r.stage.status])
              /\ turns' = Append(turns, TurnOf(r.stage))
              /\ stage' = FreshStage(TurnOf(r.stage).index)
              /\ pc' = "await_create"
              /\ inflight' = [kind |-> "create",
                              request |-> createRequest(tools, TurnConfig(tools, config),
                                                        r.messages)]
              /\ requests' = Append(requests, inflight'.request)
              /\ UNCHANGED <<outcome, calls>>
         [] OTHER ->
              \* nextTurn returns done = true; createMessage returns the response
              /\ steps' = Append(steps, [turn |-> Len(turns) + 1, status |-> r.stage.status])
              /\ turns' = Append(turns, TurnOf(r.stage))
              /\ stage' = r.stage
              /\ pc' = "returned"
              /\ inflight' = NoCall
              /\ outcome' = [kind |-> "returned", value |-> TurnOf(r.stage).response]
              /\ UNCHANGED <<requests, calls>>

\* a bug: the placeholder is pushed before the request is awaited, and stays
\* in the list when the request fails
ResumeCreate_Pushed ==
    /\ pc = "await_create"
    /\ settled # <<>>
    /\ IF settled[1].ok
       THEN /\ Continue(NextPending(stage, messages, settled[1].value))
            /\ UNCHANGED <<parseVars, callVars, stepVars, tools, config, received, answers>>
       ELSE /\ pc' = "thrown"
            /\ outcome' = [kind |-> "threw",
                           value |-> Parse(settled[1].value, tools).value,
                           raised |-> settled[1].value,
                           form |-> settled[1].form]
            /\ inflight' = NoCall
            /\ settled' = <<>>
            /\ messages' = Append(messages, [role |-> "user", content |-> <<>>])
            /\ UNCHANGED <<parseVars, callVars, stepVars, tools, config, stage, logged,
                           historyVars>>

\* next resumes after messages.create
ResumeCreate ==
    /\ pc = "await_create"
    /\ settled # <<>>
    /\ IF settled[1].ok
       THEN /\ Continue(NextPending(stage, messages, settled[1].value))
            /\ UNCHANGED <<parseVars, callVars, stepVars, tools, config, received, answers>>
       ELSE \* throw ToolSchemaError.parse(err, this.#tools)
            /\ pc' = "thrown"
            /\ outcome' = [kind |-> "threw",
                           value |-> Parse(settled[1].value, tools).value,
                           raised |-> settled[1].value,
                           form |-> settled[1].form]
            /\ inflight' = NoCall
            /\ settled' = <<>>
            /\ UNCHANGED <<parseVars, callVars, stepVars, tools, config, messages, stage, logged,
                           historyVars>>

\* next resumes after call(submessage)
ResumeCall ==
    /\ pc = "await_call"
    /\ settled # <<>>
    /\ Continue(NextInputWait(stage, messages, settled[1]))
    /\ UNCHANGED <<parseVars, callVars, stepVars, tools, config, received, answers>>

\* the steps of a running createMessage call: the two services settle what
\* is awaited, and the continuations run
Run ==
    \/ \E response \in Responses : ModelResolves(response)
    \/ \E form \in ErrorForms : ModelRejects(form)
    \/ \E toolOutcome \in ToolOutcomes : ToolSettles(toolOutcome)
    \/ ResumeCreate
    \/ ResumeCall

Next ==
    \/ \E initial \in InitialMessages, rest \in Configs : CreateMessage(initial, rest)
    \/ Run

Spec == Init /\ [][Next]_vars

\* ------------------------------------------------ the Driver, scheduled
\* One conversation, the README's: a Driver of MaxTools tools, one user
\* message, no tools in the body.
InitFair ==
    /\ ParseIdle
    /\ FramesIdle
    /\ StepIdle
    /\ tools \in {ts \in ToolLists : Len(ts) = MaxTools}
    /\ DriverIdle

NextFair ==
    \/ CreateMessage(<<UserMessage>>, [max_tokens |-> 1024])
    \/ Run

\* The event loop runs the continuation of an await once the awaited promise
\* has settled, and the tool session settles every invocation it is sent.
FairSpec ==
    /\ InitFair
    /\ [][NextFair]_vars
    /\ WF_vars(ResumeCreate)
    /\ WF_vars(ResumeCall)
    /\ WF_vars(\E toolOutcome \in ToolOutcomes : ToolSettles(toolOutcome))

\* --------------------------------------------- stepping with next, replayed
\* After createMessage has returned, a second caller drives the same Driver
\* over a copy of the initial list with next alone: it starts from status
\* pending and index 1 and hands each returned stage to the next call.  The
\* services answer its k-th completion request and its k-th tool invocation
\* as they answered the k-th of the createMessage call.
StepStart ==
    /\ pc = "returned"
    /\ spc = "idle"
    /\ spc' = "stepping"
    /\ smessages' = requests[1].messages
    /\ sstage' = FreshStage(1)
    /\ sused' = [responses |-> 0, answers |-> 0]
    /\ sfatal' = <<>>
    /\ UNCHANGED <<parseVars, callVars, driverVars, historyVars>>

\* what the stepping caller does with the result r of a call of next
StepOn(r) ==
    /\ smessages' = r.messages
    /\ sstage' = r.stage
    /\ spc' = IF r.threw THEN "thrown"
              ELSE IF r.stage.status = "ready" THEN "done"
              ELSE "stepping"

\* next(stage, config) on a pending stage
StepPending ==
    /\ spc = "stepping"
    /\ sstage.status = "pending"
    /\ sused.responses < Len(received)
    /\ StepOn(NextPending(sstage, smessages, received[sused.responses + 1]))
    /\ sused' = [sused EXCEPT !.responses = @ + 1]
    /\ UNCHANGED <<parseVars, callVars, driverVars, historyVars, sfatal>>

\* next(stage, config) on an input_wait stage
StepInputWait ==
    /\ spc = "stepping"
    /\ sstage.status = "input_wait"
    /\ sused.answers < Len(answers)
    /\ StepOn(NextInputWait(sstage, smessages, answers[sused.answers + 1]))
    /\ sused' = [sused EXCEPT !.answers = @ + 1]
    /\ UNCHANGED <<parseVars, callVars, driverVars, historyVars, sfatal>>

\* next(stage, config) on the stage of a finished turn, or on that stage with
\* a status that is none: the call throws and the caller keeps its stage
StepIllegal(status) ==
    /\ spc = "done"
    /\ sfatal = <<>>
    /\ LET r == NextDefault([sstage EXCEPT !.status = status], smessages)
       IN /\ smessages' = r.messages
          /\ sfatal' = <<[status |-> status, threw |-> r.threw, value |-> r.value]>>
    /\ UNCHANGED <<parseVars, callVars, driverVars, historyVars, spc, sstage, sused>>

NextRT ==
    \/ Next
    \/ StepStart
    \/ StepPending
    \/ StepInputWait
    \/ \E status \in IllegalStatuses : StepIllegal(status)

SpecRT == Init /\ [][NextRT]_vars

\* -------------------------------------------------- the classifier alone
InitParse ==
    /\ parseIn \in {[err |-> ErrorOf(f, 1), tools |-> ts, form |-> f] :
                      f \in ErrorForms, ts \in ToolLists}
    /\ parseOut = <<>>
    /\ tools = <<>>
    /\ FramesIdle
    /\ DriverIdle
    /\ StepIdle

CallParse ==
    /\ parseOut = <<>>
    /\ parseOut' = <<Parse(parseIn.err, parseIn.tools)>>
    /\ UNCHANGED <<parseIn, callVars, driverVars, historyVars, stepVars>>

NextParse == CallParse

SpecParse == InitParse /\ [][NextParse]_vars

\* ------------------------------------------- two calls on one Driver
\* Two callers run createMessage on the same Driver, each with its own
\* message array; the calls interleave at their awaits.  What a call keeps
\* between awaits is in its local variables (body, messages, messageIdx and
\* response in createMessage, stage in nextTurn and next): frames[c] for
\* call c.  The Driver's fields are set in the constructor only.

\* a bug: what a call keeps between awaits is kept in a field of the Driver,
\* one for all calls
Local_Field(fs, c) == fs[1]

\* the local variables of call c
Local(fs, c) == fs[c]

\* the message array of each caller
CallInitials ==
    <<<<UserMessage>>,
      <<UserMessage, [role |-> "assistant", content |-> <<TextBlock>>], UserMessage>>>>

\* the tool_use block at position p of a response to call c
CallToolUse(c, p) == ToolUseBlock((c - 1) * MaxBlocks + p)

CallTexts == <<"four", "five">>

\* the responses of the completion service to call c
CallResponses(c) ==
    {[role |-> "assistant", content |-> <<CallToolUse(c, 1)>>, stop_reason |-> "tool_use"],
     [role |-> "assistant", content |-> [p \in 1..MaxBlocks |-> CallToolUse(c, p)],
      stop_reason |-> "end_turn"],
     [role |-> "assistant", content |-> <<[type |-> "text", text |-> CallTexts[c]]>>,
      stop_reason |-> "end_turn"]}

\* the local variables of a call after a call of next came to r: the rest of
\* nextTurn, and of createMessage up to its next await, its return or its throw
After(frame, r) ==
    LET base == [frame EXCEPT !.messages = r.messages, !.settled = <<>>]
    IN CASE r.threw ->
              [base EXCEPT !.pc = "thrown", !.outcome = <<r.value>>]
         [] ~r.threw /\ r.stage.status = "input_wait" ->
              [base EXCEPT !.pc = "await_call", !.stage = r.stage]
         [] ~r.threw /\ r.stage.status # "input_wait" /\ ~TurnOf(r.stage).done ->
              [base EXCEPT !.pc = "await_create",
                           !.stage = FreshStage(TurnOf(r.stage).index)]
         [] OTHER ->
              [base EXCEPT !.pc = "returned", !.stage = r.stage,
                           !.outcome = <<TurnOf(r.stage).response>>]

InitConcurrent ==
    /\ ParseIdle
    /\ StepIdle
    /\ tools \in {ts \in ToolLists : Len(ts) = MaxTools}
    /\ DriverIdle
    /\ FramesIdle

\* caller c calls createMessage, up to the first await
CallStart(c) ==
    /\ Local(frames, c).pc = "idle"
    /\ frames' = [frames EXCEPT ![c] =
                    [Local(frames, c) EXCEPT
                        !.pc = "await_create",
                        !.initial = CallInitials[c],
                        !.messages = CallInitials[c],
                        !.stage = FreshStage(1),
                        !.overlap = frames[3 - c].pc \in {"await_create", "await_call"}]]
    /\ UNCHANGED <<parseVars, driverVars, historyVars, stepVars>>

\* the completion service answers the request that call c awaits
CallModelResolves(c, response) ==
    /\ Local(frames, c).pc = "await_create"
    /\ Local(frames, c).settled = <<>>
    /\ Len(Local(frames, c).received) < MaxTurns
    /\ frames' = [frames EXCEPT ![c] =
                    [Local(frames, c) EXCEPT !.settled = <<response>>,
                                             !.received = Append(@, response)]]
    /\ UNCHANGED <<parseVars, driverVars, historyVars, stepVars>>

\* the tool session settles the invocation that call c awaits
CallToolSettles(c, toolOutcome) ==
    /\ Local(frames, c).pc = "await_call"
    /\ Local(frames, c).settled = <<>>
    /\ frames' = [frames EXCEPT ![c] =
                    [Local(frames, c) EXCEPT !.settled = <<toolOutcome>>,
                                             !.answers = Append(@, toolOutcome)]]
    /\ UNCHANGED <<parseVars, driverVars, historyVars, stepVars>>

\* call c resumes in next after messages.create
CallResumeCreate(c) ==
    /\ Local(frames, c).pc = "await_create"
    /\ Local(frames, c).settled # <<>>
    /\ frames' = [frames EXCEPT ![c] =
                    After(Local(frames, c),
                          NextPending(Local(frames, c).stage, Local(frames, c).messages,
                                      Local(frames, c).settled[1]))]
    /\ UNCHANGED <<parseVars, driverVars, historyVars, stepVars>>

\* call c resumes in next after call(submessage)
CallResumeCall(c) ==
    /\ Local(frames, c).pc = "await_call"
    /\ Local(frames, c).settled # <<>>
    /\ frames' = [frames EXCEPT ![c] =
                    After(Local(frames, c),
                          NextInputWait(Local(frames, c).stage, Local(frames, c).messages,
                                        Local(frames, c).settled[1]))]
    /\ UNCHANGED <<parseVars, driverVars, historyVars, stepVars>>

NextConcurrent ==
    \E c \in {1, 2} :
        \/ CallStart(c)
        \/ \E response \in CallResponses(c) : CallModelResolves(c, response)
        \/ \E toolOutcome \in ToolOutcomes : CallToolSettles(c, toolOutcome)
        \/ CallResumeCreate(c)
        \/ CallResumeCall(c)

SpecConcurrent == InitConcurrent /\ [][NextConcurrent]_vars

\* ---------------------------------------------------------------- claims
\* The history variables number the nextTurn calls of one createMessage call
\* from 1: call n issues requests[n], is answered by received[n] and returns
\* turns[n].

\* the list that nextTurn call n was given
ListBefore(n) == requests[n].messages

\* where the placeholder that nextTurn call n pushes stands in the list
PlaceholderAt(n) == Len(ListBefore(n)) + 2

AssistantMessage(response) == [role |-> response.role, content |-> response.content]

\* the tool invocations issued by nextTurn call n, in the order of their issue
CallsOfTurn(n) == {k \in DOMAIN calls : calls[k].turn = n}

\* tool invocation k settled and next resumed from it
Resumed(k) ==
    /\ k \in DOMAIN answers
    /\ ~(k = Len(answers) /\ pc = "await_call" /\ settled # <<>>)

\* the place of tool invocation k among those of its turn
OrdinalInTurn(k) == Cardinality({j \in 1..k : calls[j].turn = calls[k].turn})

\* C1: for a response with N >= 1 tool_use blocks, when the next completion
\* request is issued the placeholder that follows the response holds exactly N
\* tool_result blocks, the k-th carrying the id of the k-th tool_use block.
C1_OneResultPerToolUse ==
    \A n \in DOMAIN turns :
        LET uses == ToolUsesOf(received[n].content)
        IN (Len(uses) >= 1 /\ (n + 1) \in DOMAIN requests) =>
             LET sent == requests[n + 1].messages
             IN /\ Len(sent) = PlaceholderAt(n)
                /\ sent[PlaceholderAt(n) - 1] = AssistantMessage(received[n])
                /\ sent[PlaceholderAt(n)].role = "user"
                /\ Len(sent[PlaceholderAt(n)].content) = Len(uses)
                /\ \A k \in DOMAIN uses :
                     /\ sent[PlaceholderAt(n)].content[k].type = "tool_result"
                     /\ sent[PlaceholderAt(n)].content[k].tool_use_id = uses[k].id

\* C2: when createMessage returns, the response it returns has no tool_use
\* block, and every tool_use block of every response received during the call
\* was sent to the tool session exactly once, with its name and input, and
\* that invocation has settled.
C2_AllToolCallsProcessed ==
    pc = "returned" =>
        /\ ToolUsesOf(outcome.value.content) = <<>>
        /\ \A n \in DOMAIN received :
             \A p \in DOMAIN received[n].content :
                IsToolUse(received[n].content[p]) =>
                    LET sent == {k \in CallsOfTurn(n) : calls[k].submessageIdx = p - 1}
                    IN /\ Cardinality(sent) = 1
                       /\ \A k \in sent :
                            /\ calls[k].request.params.name = received[n].content[p].name
                            /\ calls[k].request.params.arguments
                                 = received[n].content[p].input
                            /\ Resumed(k)

C2_Witness ==
    /\ pc = "returned"
    /\ \E n \in DOMAIN received : Len(ToolUsesOf(received[n].content)) = 2

\* C3: a tool invocation that rejects is never thrown to the caller: its
\* tool_result block has is_error true and the id of the block that was
\* invoked, stands where a successful result would stand (the place of the
\* invocation among those of its response), and the machine goes on as after
\* a success: to the next block of the response, or to the next completion
\* request.
C3_ToolFailureIsolated ==
    /\ pc = "thrown" => HasField(outcome, "raised")
    /\ \A k \in DOMAIN answers :
         (~answers[k].resolved /\ Resumed(k)) =>
            LET n == calls[k].turn
                results == messages[PlaceholderAt(n)].content
                block == results[OrdinalInTurn(k)]
            IN /\ Len(results) >= OrdinalInTurn(k)
               /\ block.type = "tool_result"
               /\ HasField(block, "is_error") /\ block.is_error
               /\ block.tool_use_id = Get(calls[k].submessage, "id")
               /\ IF calls[k].submessageIdx + 1 < Len(received[n].content)
                  THEN /\ (k + 1) \in DOMAIN calls
                       /\ calls[k + 1].turn = n
                       /\ calls[k + 1].submessageIdx = calls[k].submessageIdx + 1
                  ELSE /\ n \in DOMAIN turns
                       /\ ~turns[n].done
                       /\ (n + 1) \in DOMAIN requests

C3_Witness ==
    \E k \in DOMAIN answers :
        /\ ~answers[k].resolved
        /\ (k + 1) \in DOMAIN answers
        /\ calls[k + 1].turn = calls[k].turn
        /\ answers[k + 1].resolved
        /\ Len(requests) > calls[k].turn

\* the status that the last call of next in nextTurn call n returned
LastStatus(n) ==
    LET js == {j \in DOMAIN steps : steps[j].turn = n}
    IN steps[CHOOSE j \in js : \A i \in js : i <= j].status

\* C4: for a response whose stop_reason is tool_use, no call of next in the
\* step that handles it returns status ready; nextTurn returns done = false
\* with the machine in pending, and another completion request is issued.
C4_ToolUseStopNeverReady ==
    \A n \in DOMAIN received :
        received[n].stop_reason = "tool_use" =>
            /\ \A j \in DOMAIN steps : steps[j].turn = n => steps[j].status # "ready"
            /\ n \in DOMAIN turns =>
                 /\ ~turns[n].done
                 /\ LastStatus(n) = "pending"
                 /\ (n + 1) \in DOMAIN requests

C4_Witness ==
    \E n \in DOMAIN turns, m \in DOMAIN turns :
        /\ received[n].stop_reason = "tool_use"
        /\ ToolUsesOf(received[n].content) = <<>>
        /\ received[m].stop_reason = "tool_use"
        /\ ToolUsesOf(received[m].content) # <<>>

\* C5: a response with no tool_use block and stop_reason end_turn, with no
\* tool call made before it, ends the step in ready: nextTurn returns
\* done = true, createMessage returns that response, and the list is the list
\* the step was given plus the one assistant message, without placeholder; a
\* first step on a 1-message list leaves exactly 2 entries, user and assistant.
C5_EndTurnReady ==
    \A n \in DOMAIN turns :
        (/\ ToolUsesOf(received[n].content) = <<>>
         /\ received[n].stop_reason = "end_turn"
         /\ \A k \in DOMAIN calls : calls[k].turn > n) =>
            /\ turns[n].done
            /\ LastStatus(n) = "ready"
            /\ pc = "returned"
            /\ outcome.value = received[n]
            /\ messages = Append(ListBefore(n), AssistantMessage(received[n]))
            /\ (n = 1 /\ Len(ListBefore(1)) = 1) =>
                 /\ Len(messages) = 2
                 /\ messages[1].role = "user"
                 /\ messages[2].role = "assistant"

C5_Witness ==
    /\ pc = "returned"
    /\ Len(turns) = 1
    /\ received[1].stop_reason = "end_turn"
    /\ Len(messages) = 2

\* a response that asks for no tool work: no tool_use block, and a
\* stop_reason other than tool_use
IsFinal(response) ==
    /\ ToolUsesOf(response.content) = <<>>
    /\ response.stop_reason # "tool_use"

\* the completion service has returned a final response to the awaited request
FinalDelivered ==
    /\ pc = "await_create"
    /\ settled # <<>>
    /\ settled[1].ok
    /\ IsFinal(settled[1].value)

\* C6: once the completion service has returned a response with no tool_use
\* block and a stop_reason other than tool_use, createMessage returns, with
\* that response as its value; after it has returned it issues no further
\* request and changes nothing.
C6_Terminates ==
    /\ FinalDelivered ~>
         (/\ pc = "returned"
          /\ outcome.value = received[Len(received)]
          /\ IsFinal(outcome.value))
    /\ [][pc = "returned" =>
            (pc' = "returned" /\ UNCHANGED <<outcome, requests, messages>>)]_vars

C6_Witness ==
    /\ pc = "returned"
    /\ Len(received) = MaxTurns
    /\ Len(calls) > 0
    /\ outcome.value.stop_reason = "end_turn"

\* the stepping caller has been given every response and every tool answer
\* of the createMessage call
AllReplayed ==
    /\ sused.responses = Len(received)
    /\ sused.answers = Len(answers)

\* C7: stepping with next from status pending and index 1, over the same
\* initial list and the same responses and tool results, never asks for a
\* response or a tool result that createMessage did not ask for, and ends in
\* ready when it has been given all of them, with the same final response and
\* the same final message list as createMessage.
C7_RoundTrip ==
    /\ spc # "thrown"
    /\ spc = "done" =>
         /\ AllReplayed
         /\ sstage.response = outcome.value
         /\ smessages = messages
    /\ spc = "stepping" =>
         /\ sstage.status = "pending" => sused.responses < Len(received)
         /\ sstage.status = "input_wait" => sused.answers < Len(answers)

C7_Witness ==
    /\ spc = "done"
    /\ Len(received) = MaxTurns
    /\ Len(answers) >= 2
    /\ smessages = messages

\* the error was built with type invalid_request_error and a message
\* tools.<i>.input_schema ...
SchemaForm(form) ==
    /\ form.shape = "indexed"
    /\ form.type = "invalid_request_error"
    /\ form.prefix = "tools"
    /\ form.suffix = "schema"

\* C8: a failure of the completion request is thrown to the caller of
\* createMessage: a ToolSchemaError with the tool index, the tool name and the
\* original error when the error is a schema error, and the very error object
\* that the completion service raised in every other case.
C8_CompletionErrorPropagates ==
    /\ (pc = "await_create" /\ settled # <<>>) => settled[1].ok \/ ENABLED ResumeCreate
    /\ pc = "thrown" =>
         IF SchemaForm(outcome.form)
         THEN /\ Get(outcome.value, "class") = "ToolSchemaError"
              /\ outcome.value.toolIndex = outcome.form.index
              /\ \E k \in DOMAIN ToolNames : outcome.value.toolName = ToolNames[k]
              /\ outcome.value.originalError = outcome.raised
         ELSE outcome.value = outcome.raised

\* C9: for an error of type invalid_request_error with a message
\* tools.<i>.input_schema ... and a tool list longer than i, parse returns a
\* ToolSchemaError with toolIndex i, the name of the tool at position i of
\* the list and the input error as originalError; for i = 2 and a list of 3
\* tools that is index 2 and the third tool's name.
C9_ParseClassifies ==
    (parseOut # <<>> /\ SchemaForm(parseIn.form)
       /\ parseIn.form.index < Len(parseIn.tools)) =>
        /\ ~parseOut[1].threw
        /\ Get(parseOut[1].value, "class") = "ToolSchemaError"
        /\ parseOut[1].value.toolIndex = parseIn.form.index
        /\ parseOut[1].value.toolName = parseIn.tools[parseIn.form.index + 1].name
        /\ parseOut[1].value.originalError = parseIn.err
        /\ (parseIn.form.index = 2 /\ Len(parseIn.tools) = 3) =>
             parseOut[1].value.toolName = "tool3"

C9_Witness ==
    /\ parseOut # <<>>
    /\ SchemaForm(parseIn.form)
    /\ parseIn.form.index = 2
    /\ Len(parseIn.tools) = 3
    /\ parseOut[1].value.toolName = "tool3"

\* the error was built without nested error.error object, or with another
\* type, or with a message that lacks input_schema or does not start with
\* tools.
UnrelatedForm(form) ==
    \/ form.shape \in {"plain", "no_nested", "no_message"}
    \/ /\ form.shape \in {"indexed", "unindexed"}
       /\ \/ form.type # "invalid_request_error"
          \/ form.suffix \notin MarkedSuffixes
          \/ form.prefix # "tools"

\* C10: for an error without nested error.error object, or of another type,
\* or whose message lacks input_schema or does not start with tools., parse
\* returns the input error object itself, whatever the tool list, and no
\* ToolSchemaError.
C10_ParseConservative ==
    (parseOut # <<>> /\ UnrelatedForm(parseIn.form)) =>
        /\ ~parseOut[1].threw
        /\ parseOut[1].value = parseIn.err
        /\ parseOut[1].value.oid = parseIn.err.oid
        /\ Get(parseOut[1].value, "class") # "ToolSchemaError"

C10_Witness ==
    /\ parseOut # <<>>
    /\ parseIn.form.shape = "indexed"
    /\ parseIn.form.type = "invalid_request_error"
    /\ parseIn.form.prefix = "spaced"
    /\ parseIn.form.suffix = "schema"
    /\ parseIn.form.index < Len(parseIn.tools)
    /\ parseOut[1].value = parseIn.err

\* the error was built with type invalid_request_error and a message that
\* starts with tools. and contains input_schema, but what follows tools. is
\* no integer, or an integer that is no position of the list ts
UnparseableForm(form, ts) ==
    /\ form.shape \in {"indexed", "unindexed"}
    /\ form.type = "invalid_request_error"
    /\ form.prefix = "tools"
    /\ form.suffix \in MarkedSuffixes
    /\ form.shape = "indexed" => form.index >= Len(ts)

\* C11: for an error of type invalid_request_error whose message starts with
\* tools. and contains input_schema, but whose segment after tools. is no
\* integer or no position of the tool list, parse does not throw and returns
\* the input error object itself, no ToolSchemaError.
C11_ParseUnparseable ==
    (parseOut # <<>> /\ UnparseableForm(parseIn.form, parseIn.tools)) =>
        /\ ~parseOut[1].threw
        /\ parseOut[1].value = parseIn.err

\* C16: the message of a ToolSchemaError is the message of the error it was
\* constructed from, whatever the tool index and the tool name.
C16_MessageOfOriginal ==
    (parseOut # <<>> /\ ~parseOut[1].threw
       /\ Get(parseOut[1].value, "class") = "ToolSchemaError") =>
        parseOut[1].value.message = parseOut[1].value.originalError.message

\* the single payloads of the tool session: objects with a type and a text
SinglePayloads == [{"type", "text"} -> {"text", "4"}]

\* tool invocation k answered the only block, a tool_use block, of its
\* response with the single payload {type: text, text: 4}, and the next
\* completion request has been issued
SingleCase(k) ==
    /\ answers[k].resolved
    /\ ~answers[k].isArray
    /\ answers[k].result.content = [type |-> "text", text |-> "4"]
    /\ received[calls[k].turn].content = <<ToolUseBlock(1)>>
    /\ (calls[k].turn + 1) \in DOMAIN requests

\* C12 as stated: after one tool_use block (id toolu_1, name add) answered
\* with the single payload {type: text, text: 4}, the next completion request
\* holds a user message whose content is exactly one tool_result block with
\* that id, whose content is the one-element list [{text: 4, type: text}].
C12_SinglePayloadWrapped ==
    \A k \in DOMAIN answers :
        SingleCase(k) =>
            \E i \in DOMAIN requests[calls[k].turn + 1].messages :
                LET m == requests[calls[k].turn + 1].messages[i]
                IN /\ m.role = "user"
                   /\ Len(m.content) = 1
                   /\ m.content[1].type = "tool_result"
                   /\ m.content[1].tool_use_id = "toolu_1"
                   /\ m.content[1].content \notin SinglePayloads
                   /\ m.content[1].content = <<[text |-> "4", type |-> "text"]>>

\* C12, amended: after one tool_use block (id toolu_1, name add) answered
\* with the single payload {type: text, text: 4}, the next completion request
\* ends with a user message whose content is exactly one tool_result block
\* with that id, whose content is the payload itself, the object
\* {type: text, text: 4}, and no list.
C12_SinglePayloadPassed ==
    \A k \in DOMAIN answers :
        SingleCase(k) =>
            LET sent == requests[calls[k].turn + 1].messages
                m == sent[Len(sent)]
            IN /\ Len(sent) = PlaceholderAt(calls[k].turn)
               /\ m.role = "user"
               /\ Len(m.content) = 1
               /\ m.content[1].type = "tool_result"
               /\ m.content[1].tool_use_id = "toolu_1"
               /\ m.content[1].content \in SinglePayloads
               /\ m.content[1].content = [type |-> "text", text |-> "4"]

C12_Witness ==
    \E k \in DOMAIN answers :
        /\ SingleCase(k)
        /\ calls[k].request.params.name = "add"
        /\ requests[calls[k].turn + 1].messages[PlaceholderAt(calls[k].turn)].content[1].content
             = answers[k].result.content

\* C13: the tool_result block of an invocation that resolved never has
\* is_error; for a list payload its content is a list of the same length and
\* order whose items have exactly the type and the property named by the
\* type, with the payload's values; for a single payload its content is the
\* payload itself.
C13_ResultNormalized ==
    \A k \in DOMAIN answers :
        (answers[k].resolved /\ Resumed(k)) =>
            LET block == messages[PlaceholderAt(calls[k].turn)].content[OrdinalInTurn(k)]
                payload == answers[k].result.content
            IN /\ block.type = "tool_result"
               /\ ~HasField(block, "is_error")
               /\ IF answers[k].isArray
                  THEN /\ Len(block.content) = Len(payload)
                       /\ \A i \in DOMAIN payload :
                            /\ DOMAIN block.content[i] = {"type", payload[i].type}
                            /\ block.content[i].type = payload[i].type
                            /\ block.content[i][payload[i].type]
                                 = payload[i][payload[i].type]
                  ELSE /\ block.content \in SinglePayloads
                       /\ block.content = payload

C13_Witness ==
    \E j \in DOMAIN answers, k \in DOMAIN answers :
        /\ Resumed(j) /\ Resumed(k)
        /\ answers[j].resolved /\ answers[j].isArray
        /\ Len(messages[PlaceholderAt(calls[j].turn)].content[OrdinalInTurn(j)].content) = 2
        /\ answers[k].resolved /\ ~answers[k].isArray

\* The caller's array is the one array object the variable messages stands
\* for: no operation of the Driver makes another array of messages.

\* the list after a step is the list before it with messages appended and,
\* at most, one more block in the content of its last message, a user message
GrownFrom(before, after) ==
    /\ Len(after) >= Len(before)
    /\ \A i \in DOMAIN before :
         \/ after[i] = before[i]
         \/ /\ i = Len(before)
            /\ before[i].role = "user"
            /\ after[i].role = "user"
            /\ Len(after[i].content) = Len(before[i].content) + 1
            /\ SubSeq(after[i].content, 1, Len(before[i].content)) = before[i].content

\* what a pending step leaves of its two pushes: the assistant message, and
\* the empty placeholder unless the step popped it
PendingStepEffect(before, after, response) ==
    \/ after = Append(before, AssistantMessage(response))
    \/ after = Append(Append(before, AssistantMessage(response)),
                      [role |-> "user", content |-> <<>>])

\* C14: the messages the caller passed to createMessage stay the unchanged
\* beginning of the list; every step leaves the messages that were in the
\* list where they were and only appends (a message to the list, a block to
\* the placeholder); a pending step leaves the list it was given plus the
\* assistant message, with or without the placeholder it pushed: nothing
\* else is ever removed.
C14_AppendOnly ==
    /\ [](requests # <<>> =>
            /\ Len(messages) >= Len(requests[1].messages)
            /\ SubSeq(messages, 1, Len(requests[1].messages)) = requests[1].messages)
    /\ [][pc # "idle" =>
            /\ GrownFrom(messages, messages')
            /\ (pc = "await_create" /\ settled # <<>> /\ settled[1].ok) =>
                 PendingStepEffect(messages, messages', settled[1].value)]_vars

C14_Witness ==
    /\ pc = "returned"
    /\ Len(requests[1].messages) = 3
    /\ Len(turns) = MaxTurns
    /\ Len(answers) >= 2
    /\ Len(messages) = Len(requests[1].messages) + 3

\* C15: a completion request has no tools field when the Driver's tool list
\* is empty, and carries the Driver's tool list when it is not.
C15_ToolsOmittedWhenEmpty ==
    \A n \in DOMAIN requests :
        IF Len(tools) = 0
        THEN ~HasField(requests[n], "tools")
        ELSE HasField(requests[n], "tools") /\ requests[n].tools = tools

\* the tool invocations issued so far that have not settled
OutstandingCalls == Len(calls) - Len(answers)

\* the completion request awaited, if it has not settled
OutstandingRequests == IF pc = "await_create" /\ settled = <<>> THEN 1 ELSE 0

\* C17: within a createMessage call at most one external call is outstanding;
\* the tool invocations of a response are issued for its blocks in the order
\* of the content array, from the first tool_use block on, one position
\* after the other, each when the results of all earlier ones of the response
\* have been appended and its own has not; a completion request is issued
\* only when every invocation of the response before it has settled and its
\* result has been appended.
C17_StrictlySequential ==
    /\ OutstandingCalls \in {0, 1}
    /\ Len(requests) - Len(received) \in {0, 1}
    /\ OutstandingCalls + OutstandingRequests <= 1
    /\ \A k \in DOMAIN calls :
         LET n == calls[k].turn
         IN /\ calls[k].submessage = received[n].content[calls[k].submessageIdx + 1]
            /\ calls[k].request = callRequest(calls[k].submessage)
            /\ IF OrdinalInTurn(k) = 1
               THEN calls[k].submessageIdx = FirstToolUse(received[n].content)
               ELSE /\ calls[k - 1].turn = n
                    /\ calls[k].submessageIdx = calls[k - 1].submessageIdx + 1
            /\ k < Len(calls) => calls[k + 1].turn >= n
            /\ k = Len(calls) =>
                 Len(messages[PlaceholderAt(n)].content)
                   = IF Resumed(k) THEN OrdinalInTurn(k) ELSE OrdinalInTurn(k) - 1
    /\ \A n \in DOMAIN requests :
         n > 1 =>
            /\ \A k \in CallsOfTurn(n - 1) : k \in DOMAIN answers
            /\ Len(requests[n].messages[PlaceholderAt(n - 1)].content)
                 = Cardinality(CallsOfTurn(n - 1))
            /\ \A p \in DOMAIN received[n - 1].content :
                 IsToolUse(received[n - 1].content[p]) =>
                    \E k \in CallsOfTurn(n - 1) : calls[k].submessageIdx = p - 1

C17_Witness ==
    /\ Len(requests) = MaxTurns + 1
    /\ Cardinality(CallsOfTurn(1)) = 2
    /\ Cardinality(CallsOfTurn(2)) = 1
    /\ calls[3].submessageIdx = 1
    /\ OutstandingCalls = 0

\* the messages of a list, after the first len of them, that are user
\* messages with empty content
EmptyUserMessages(list, len) ==
    {i \in DOMAIN list : i > len /\ list[i].role = "user" /\ list[i].content = <<>>}

\* C18: no completion request and no list that createMessage returns holds,
\* after the messages the caller passed, a user message with empty content;
\* after a response without tool_use block, whatever its stop_reason, the
\* list that the step leaves is the list it was given plus the assistant
\* message.
C18_NoEmptyPlaceholder ==
    /\ \A n \in DOMAIN requests :
         EmptyUserMessages(requests[n].messages, Len(requests[1].messages)) = {}
    /\ pc = "returned" => EmptyUserMessages(messages, Len(requests[1].messages)) = {}
    /\ \A n \in DOMAIN turns :
         ToolUsesOf(received[n].content) = <<>> =>
            LET after == IF (n + 1) \in DOMAIN requests
                         THEN requests[n + 1].messages ELSE messages
            IN after = Append(ListBefore(n), AssistantMessage(received[n]))

\* a response with no tool_use block and stop_reason end_turn
EndTurnWithoutTools(response) ==
    /\ ToolUsesOf(response.content) = <<>>
    /\ response.stop_reason = "end_turn"

FirstStep(n) == CHOOSE j \in DOMAIN steps :
                   steps[j].turn = n /\ \A i \in DOMAIN steps : steps[i].turn = n => j <= i

\* C20: a call of next on an input_wait stage returns input_wait or pending,
\* never ready, and pending once the last block of the content array has
\* been handled; for a response with a tool_use block, whatever its
\* stop_reason, nextTurn returns done = false from status pending and another
\* completion request is issued.
C20_InputWaitNeverReady ==
    /\ \A j \in DOMAIN steps :
         j # FirstStep(steps[j].turn) => steps[j].status \in {"input_wait", "pending"}
    /\ \A n \in DOMAIN turns :
         ToolUsesOf(received[n].content) # <<>> =>
            /\ ~turns[n].done
            /\ LastStatus(n) = "pending"
            /\ (n + 1) \in DOMAIN requests
            /\ \E k \in CallsOfTurn(n) :
                 calls[k].submessageIdx + 1 = Len(received[n].content)

C20_Witness ==
    \E n \in DOMAIN turns, m \in DOMAIN turns :
        /\ ToolUsesOf(received[n].content) # <<>>
        /\ received[n].stop_reason = "end_turn"
        /\ ~turns[n].done
        /\ (n + 1) \in DOMAIN requests
        /\ ToolUsesOf(received[m].content) # <<>>
        /\ received[m].stop_reason = "max_tokens"

IsMessageEvent(e) == e.event = "message"

\* the messages reported by 'message' events, in the order of the events
MessagesLogged ==
    LET es == SelectSeq(logged, IsMessageEvent)
    IN [k \in DOMAIN es |-> es[k].exchange]

StepsOfTurn(n) == {j \in DOMAIN steps : steps[j].turn = n}

\* C22: every nextTurn call starts from a fresh pending stage and issues one
\* completion request, which is answered before any tool invocation of that
\* call is issued; it calls next again only on status input_wait, once per
\* tool invocation, and stops at the first other status; it returns
\* done = true exactly for ready and done = false exactly for pending.
C22_NextTurn ==
    /\ pc = "await_create" => stage = FreshStage(stage.index)
    /\ pc = "await_call" => stage.status = "input_wait"
    /\ Len(requests)
         = Len(turns) + (IF pc \in {"await_create", "await_call", "thrown"} THEN 1 ELSE 0)
    /\ \A k \in DOMAIN calls :
         /\ calls[k].turn \in DOMAIN requests
         /\ calls[k].turn \in DOMAIN received
    /\ \A j \in DOMAIN steps :
         (\E i \in StepsOfTurn(steps[j].turn) : i > j) => steps[j].status = "input_wait"
    /\ \A n \in DOMAIN turns :
         /\ Cardinality(StepsOfTurn(n)) = 1 + Cardinality(CallsOfTurn(n))
         /\ LastStatus(n) \in {"ready", "pending"}
         /\ turns[n].done <=> LastStatus(n) = "ready"
         /\ ~turns[n].done <=> LastStatus(n) = "pending"

C22_Witness ==
    /\ pc = "returned"
    /\ Len(turns) = 2
    /\ Cardinality(CallsOfTurn(1)) = 2
    /\ Cardinality(StepsOfTurn(1)) = 3
    /\ ~turns[1].done
    /\ turns[2].done

\* C23: whenever next runs on an input_wait stage, the block it hands to the
\* tool session is a tool_use block of the assistant message before the
\* placeholder, and the placeholder is a user message; no other block is
\* ever sent to the tool session.
C23_AlwaysToolUse ==
    /\ pc = "await_call" =>
         /\ messages[stage.index].role = "assistant"
         /\ messages[stage.index + 1].role = "user"
         /\ IsToolUse(InputSubmessage(stage, messages))
    /\ \A k \in DOMAIN calls : IsToolUse(calls[k].submessage)

\* C24: a call of next on a stage whose status is neither pending nor
\* input_wait, the ready stage of a finished turn included, throws an Error
\* that names the status; no response and no tool result is asked for and
\* the message list stays as it was.
C24_IllegalStatusThrows ==
    /\ [](sfatal # <<>> =>
            /\ sfatal[1].threw
            /\ sfatal[1].value.name = "Error"
            /\ sfatal[1].value.message = <<"Illegal status: ", sfatal[1].status>>
            /\ sstage.status = "ready"
            /\ smessages = messages
            /\ AllReplayed)
    /\ [][sfatal' # sfatal =>
            /\ smessages' = smessages
            /\ sused' = sused
            /\ UNCHANGED <<requests, calls, messages>>]_vars

C24_Witness ==
    /\ sfatal # <<>>
    /\ sfatal[1].status = "ready"
    /\ sfatal[1].threw
    /\ Len(smessages) >= 4
    /\ sused.answers >= 1

\* what createMessage, run alone from stage and list, comes to over the
\* responses and the tool answers given
RECURSIVE Alone(_, _, _, _)
Alone(stg, msgs, responses, answs) ==
    IF stg.status = "pending"
    THEN IF responses = <<>>
         THEN [returned |-> FALSE, messages |-> msgs, response |-> stg.response]
         ELSE LET r == NextPending(stg, msgs, Head(responses))
              IN IF r.stage.status = "ready"
                 THEN [returned |-> TRUE, messages |-> r.messages,
                       response |-> r.stage.response]
                 ELSE Alone(IF r.stage.status = "pending"
                            THEN FreshStage(r.stage.index) ELSE r.stage,
                            r.messages, Tail(responses), answs)
    ELSE IF answs = <<>>
         THEN [returned |-> FALSE, messages |-> msgs, response |-> stg.response]
         ELSE LET r == NextInputWait(stg, msgs, Head(answs))
              IN Alone(IF r.stage.status = "pending"
                       THEN FreshStage(r.stage.index) ELSE r.stage,
                       r.messages, responses, Tail(answs))

\* the ids of the tool_use blocks of the responses to call c
CallIds(c) == {CallToolUse(c, p).id : p \in 1..MaxBlocks}

\* C25: of two createMessage calls that interleave on one Driver, each
\* returns the response and leaves the list that it comes to when run alone
\* over its own list, responses and tool results; each list begins with its
\* caller's messages, holds only responses to its own call, and every
\* tool_result in it answers a tool_use block of its own call.
C25_NoHiddenState ==
    \A c \in {1, 2} :
        /\ frames[c].pc # "idle" =>
             /\ Len(frames[c].messages) >= Len(CallInitials[c])
             /\ SubSeq(frames[c].messages, 1, Len(CallInitials[c])) = CallInitials[c]
             /\ \A i \in (Len(CallInitials[c]) + 1)..Len(frames[c].messages) :
                  LET m == frames[c].messages[i]
                  IN IF m.role = "user"
                     THEN \A b \in DOMAIN m.content :
                             /\ m.content[b].type = "tool_result"
                             /\ m.content[b].tool_use_id \in CallIds(c)
                     ELSE \E response \in CallResponses(c) : m.content = response.content
        /\ frames[c].pc = "returned" =>
             LET alone == Alone(FreshStage(1), CallInitials[c], frames[c].received,
                                frames[c].answers)
             IN /\ alone.returned
                /\ frames[c].messages = alone.messages
                /\ frames[c].outcome = <<alone.response>>
                /\ alone.response \in CallResponses(c)

C25_Witness ==
    /\ frames[1].pc = "returned"
    /\ frames[2].pc = "returned"
    /\ frames[1].overlap \/ frames[2].overlap
    /\ Len(frames[1].answers) >= 2
    /\ Len(frames[2].answers) >= 2
    /\ frames[1].messages # frames[2].messages

\* the completion service has failed the awaited request
CreateFailed == pc = "await_create" /\ settled # <<>> /\ ~settled[1].ok

\* C26: the pending step whose completion request fails leaves the list as
\* the step found it, the list that was sent with the request: no assistant
\* message, no placeholder; it makes no tool invocation and reports nothing;
\* the tool results of the earlier steps of the call are still in the list.
C26_FailedCreateChangesNothing ==
    /\ [](pc = "thrown" =>
            /\ messages = requests[Len(requests)].messages
            /\ Len(received) = Len(requests) - 1
            /\ Len(turns) = Len(requests) - 1
            /\ CallsOfTurn(Len(requests)) = {}
            /\ \A n \in DOMAIN turns :
                 CallsOfTurn(n) # {} =>
                    /\ messages[PlaceholderAt(n)].role = "user"
                    /\ Len(messages[PlaceholderAt(n)].content)
                         = Cardinality(CallsOfTurn(n)))
    /\ [][CreateFailed =>
            /\ pc' = "thrown"
            /\ UNCHANGED <<messages, stage, calls, requests, logged>>]_vars

C26_Witness ==
    /\ pc = "thrown"
    /\ Len(requests) = 2
    /\ Cardinality(CallsOfTurn(1)) = 2
    /\ Len(messages[PlaceholderAt(1)].content) = 2
    /\ messages = requests[2].messages

====
